---- MODULE Spec2Model ----
(***************************************************************************)
(* Model of the model registry and predictor cache of                      *)
(* backend/ml/enhanced_model_loader.py (class ModelRegistry and            *)
(* EnsembleModel).                                                         *)
(*                                                                         *)
(* Names (categories, versions, cache keys) are Python strings; they are   *)
(* modelled as sequences of one-character strings so that the f-string     *)
(* cache key "{category}_{version}" and str.startswith are computed as the *)
(* code computes them.  Weights are Python floats; they are modelled as    *)
(* exact rationals [n, d] in lowest terms.  The created_at field of a      *)
(* record is wall-clock metadata that no operation reads; it is left out.  *)
(***************************************************************************)
EXTENDS Integers, Sequences, FiniteSets, TLC

VARIABLES
    registry,        \* ModelRegistry._registry: category -> category data
    default_models,  \* ModelRegistry._default_models: category -> version
    models,          \* ModelRegistry._models: cache key -> predictor handle
    file,            \* content of models/model_registry.json, as written chunks
    nbuilt,          \* number of model objects constructed so far (handle identities)
    last,            \* the last completed call: its name, arguments and outcome
    served,          \* (category, version) -> handle get_model returned since the last mutation or clear
    ops,             \* number of calls made so far
    pc,              \* concurrent callers: the place each worker is at in its call
    frame,           \* concurrent callers: the arguments, locals and outcome of each worker's call
    log,             \* concurrent callers: the register_model calls that returned
    built,           \* concurrent callers: cache key -> models constructed for it since it was last evicted
    predictions,     \* analyze_image: predictions[0], the scores the model gave the labels
    confidence_threshold,  \* analyze_image: its confidence_threshold argument
    indices,         \* analyze_image: the label indices selected, in the order of the results
    multiclass_results,    \* binary classifier: the multiclass results it is given
    infection_threshold,   \* binary classifier: its infection_threshold argument
    binary_result,   \* binary classifier: the list it returns
    model_cache,     \* model_loader._model_cache: model type -> model
    model_files,     \* model_loader: the model types a saved model exists for
    load_calls       \* model_loader: the number of load_model calls made so far

vars == <<registry, default_models, models, file, nbuilt, last, served, ops,
          pc, frame, log, built, predictions, confidence_threshold, indices,
          multiclass_results, infection_threshold, binary_result,
          model_cache, model_files, load_calls>>

\* The state only concurrent callers use
workers == <<pc, frame, log, built>>

\* The state only analyze_image uses
selection == <<predictions, confidence_threshold, indices>>

\* The state only the binary classifier uses
reduction == <<multiclass_results, infection_threshold, binary_result>>

\* The state only image_analyzer and model_loader use
legacy == <<model_cache, model_files, load_calls>>

\* The state only the analyzers use
analysis == <<selection, reduction, legacy>>

-----------------------------------------------------------------------------
(* Bounds *)

MaxOps == 3

-----------------------------------------------------------------------------
(* Strings *)

throat == <<"t", "h", "r", "o", "a", "t">>
ear == <<"e", "a", "r">>
ear_x == <<"e", "a", "r", "_", "x">>
v1 == <<"v", "1">>
v2 == <<"v", "2">>
x_v1 == <<"x", "_", "v", "1">>
ensemble == <<"e", "n", "s", "e", "m", "b", "l", "e">>

\* Python None for a string argument left out; no string equals it.
None == <<"None">>

\* str.startswith
StartsWith(s, prefix) ==
    /\ Len(s) >= Len(prefix)
    /\ SubSeq(s, 1, Len(prefix)) = prefix

\* f"{category}_{version}"
CacheKey(category, version) == category \o <<"_">> \o version

\* f"{category}_"
CategoryPrefix(category) == category \o <<"_">>

-----------------------------------------------------------------------------
(* Floats, as exact rationals in lowest terms with a positive denominator *)

Abs(x) == IF x < 0 THEN -x ELSE x

RECURSIVE GCD(_, _)
GCD(a, b) == IF b = 0 THEN a ELSE GCD(b, a % b)

Rat(num, den) ==
    LET g == GCD(Abs(num), Abs(den))
        s == IF den < 0 THEN -1 ELSE 1
    IN [n |-> s * (num \div g), d |-> s * (den \div g)]

RatAdd(a, b) == Rat(a.n * b.d + b.n * a.d, a.d * b.d)

\* a / b for b # 0
RatDiv(a, b) == Rat(a.n * b.d, a.d * b.n)

Zero == Rat(0, 1)
One == Rat(1, 1)

\* Python None for a weight list left out; no list of floats equals it.
NoWeights == <<[n |-> 0, d |-> 0]>>

\* sum(weights)
RECURSIVE RatSum(_)
RatSum(ws) == IF ws = <<>> THEN Zero ELSE RatAdd(Head(ws), RatSum(Tail(ws)))

-----------------------------------------------------------------------------
(* Dictionaries *)

EmptyDict == [k \in {} |-> {}]

\* d[key] = value
Put(d, key, value) ==
    [k \in DOMAIN d \cup {key} |-> IF k = key THEN value ELSE d[k]]

\* d without the keys of a set
Without(d, keys) == [k \in DOMAIN d \ keys |-> d[k]]

-----------------------------------------------------------------------------
(* Records of the registry *)

\* The record register_model stores for a version
SingleRecord(architecture, path, preprocessing) ==
    [architecture |-> architecture, path |-> path, preprocessing |-> preprocessing]

\* The record create_ensemble stores for an ensemble
EnsembleRecord(members, weights) ==
    [architecture |-> "ensemble", members |-> members, weights |-> weights]

\* The versions every category of the default registry holds
DefaultVersions(path1, arch2, path2) ==
    Put(Put(Put(EmptyDict,
        v1, SingleRecord("resnet50", path1, "standard")),
        v2, SingleRecord(arch2, path2, "standard")),
        ensemble, EnsembleRecord(<<v1, v2>>, <<Rat(1, 2), Rat(1, 2)>>))

\* _create_default_registry: the registry of a fresh install
DefaultRegistry ==
    Put(Put(EmptyDict,
        throat, [versions |-> DefaultVersions("throat_model_resnet50_v1",
                                              "efficientnet", "throat_model_efficientnet_v2"),
                 default_version |-> v1]),
        ear, [versions |-> DefaultVersions("ear_model_resnet50_v1",
                                           "densenet", "ear_model_densenet_v2"),
              default_version |-> v1])

\* _create_default_registry: the default versions of a fresh install
DefaultDefaultModels == Put(Put(EmptyDict, throat, v1), ear, v1)

\* Order in which the registry dict lists its categories (insertion order)
CategoryOrder == <<throat, ear, ear_x>>

\* 'default_version' in data
HasDefault(data) == "default_version" \in DOMAIN data

\* data['default_version'] = version
WithDefault(data, version) ==
    [versions |-> data.versions, default_version |-> version]

\* data['versions'][version] = record
WithVersion(data, version, record) ==
    [data EXCEPT !.versions = Put(@, version, record)]

-----------------------------------------------------------------------------
(* The persisted document *)

\* The categories of a registry in dict order
RECURSIVE KeysInOrder(_, _)
KeysInOrder(reg, order) ==
    IF order = <<>> THEN <<>>
    ELSE IF Head(order) \in DOMAIN reg
         THEN <<Head(order)>> \o KeysInOrder(reg, Tail(order))
         ELSE KeysInOrder(reg, Tail(order))

\* json.dump of a category's data: a JSON object, its members in dict order, every
\* member a name and a value; 'versions' is an object with one member per version,
\* and 'default_version' is a member only if the dict has the key
Encode(data) ==
    <<[name |-> "versions",
       value |-> {[name |-> v, value |-> data.versions[v]] : v \in DOMAIN data.versions}]>>
    \o (IF HasDefault(data)
        THEN <<[name |-> "default_version", value |-> data.default_version]>>
        ELSE <<>>)

\* json.load of a category's data: the dict with the keys the object has members for
Decode(object) ==
    LET Member(name) == object[CHOOSE i \in 1..Len(object) : object[i].name = name].value
        Has(name) == \E i \in 1..Len(object) : object[i].name = name
        vs == Member("versions")
        versions == [v \in {m.name : m \in vs} |-> (CHOOSE m \in vs : m.name = v).value]
    IN IF Has("default_version")
       THEN [versions |-> versions, default_version |-> Member("default_version")]
       ELSE [versions |-> versions]

\* json.dump(self._registry, f): the chunks written, one per category entry
\* between the opening and the closing brace
Dump(reg) ==
    LET keys == KeysInOrder(reg, CategoryOrder)
    IN <<[tok |-> "{"]>>
       \o [i \in 1..Len(keys) |->
              [tok |-> "entry", category |-> keys[i], data |-> Encode(reg[keys[i]])]]
       \o <<[tok |-> "}"]>>

\* _save_registry writing nothing: the document stays the one of a fresh install
SaveRegistrySkipped(reg) == Dump(DefaultRegistry)

\* _save_registry, as one step
SaveRegistry(reg) == Dump(reg)

\* A document is a complete registry: the braces around category entries
WellFormed(doc) ==
    /\ Len(doc) >= 2
    /\ doc[1].tok = "{"
    /\ doc[Len(doc)].tok = "}"
    /\ \A i \in 2..(Len(doc) - 1) : doc[i].tok = "entry"
    /\ \A i, j \in 2..(Len(doc) - 1) : doc[i].category = doc[j].category => i = j

\* json.load of a complete document
Load(doc) ==
    [c \in {doc[i].category : i \in 2..(Len(doc) - 1)} |->
        Decode(doc[CHOOSE i \in 2..(Len(doc) - 1) : doc[i].category = c].data)]

\* Lines 74-78: the default versions of a loaded registry
LoadDefaultModels(reg) ==
    [c \in {k \in DOMAIN reg : HasDefault(reg[k])} |-> reg[c].default_version]

\* There is no registry file
Absent == <<[tok |-> "absent"]>>

-----------------------------------------------------------------------------
(* Outcomes of a call *)

Ok(value) == [ok |-> TRUE, value |-> value]
Raise(error) == [ok |-> FALSE, error |-> error]

-----------------------------------------------------------------------------
(* register_model *)

\* Lines 323-325: the category is created, without a default_version, if absent
EnsureCategory(reg, category) ==
    IF category \notin DOMAIN reg
    THEN Put(reg, category, [versions |-> EmptyDict])
    ELSE reg

\* Lines 327-338 with line 336 always taken: the version is made the default
RegisterAsDefault(reg, category, version, model_path, architecture, is_default, preprocessing) ==
    LET reg1 == EnsureCategory(reg, category)
        data1 == WithVersion(reg1[category], version,
                             SingleRecord(architecture, model_path, preprocessing))
    IN Put(reg1, category, WithDefault(data1, version))

\* Lines 327-338: the record is stored and, if requested, made the default
RegisterInRegistry(reg, category, version, model_path, architecture, is_default, preprocessing) ==
    LET reg1 == EnsureCategory(reg, category)
        data1 == WithVersion(reg1[category], version,
                             SingleRecord(architecture, model_path, preprocessing))
        data2 == IF is_default THEN WithDefault(data1, version) ELSE data1
    IN Put(reg1, category, data2)

\* Lines 343-346: the cache without the keys that start with f"{category}_"
ClearCategoryCache(cache, category) ==
    Without(cache, {k \in DOMAIN cache : StartsWith(k, CategoryPrefix(category))})

-----------------------------------------------------------------------------
(* set_default_model *)

\* Lines 356-358: the version is registered in the category
VersionRegistered(reg, category, version) ==
    /\ category \in DOMAIN reg
    /\ "versions" \in DOMAIN reg[category]
    /\ version \in DOMAIN reg[category].versions

\* Lines 360-362 whenever the category is registered: the version is not looked up
SetDefaultVersionUnchecked(reg, category, version) ==
    IF category \in DOMAIN reg
    THEN Ok(Put(reg, category, WithDefault(reg[category], version)))
    ELSE Raise("ValueError")

\* Lines 356-364: the registry set_default_model leaves, or the error it raises
SetDefaultResult(reg, category, version) ==
    IF VersionRegistered(reg, category, version)
    THEN Ok(Put(reg, category, WithDefault(reg[category], version)))
    ELSE Raise("ValueError")

-----------------------------------------------------------------------------
(* create_ensemble *)

\* Lines 384-386 giving the whole weight to the first member
DefaultWeightsFirstOnly(member_versions) ==
    [i \in 1..Len(member_versions) |-> IF i = 1 THEN One ELSE Zero]

\* Lines 384-386: equal weights when none are given (1.0 / 0 raises)
DefaultWeights(member_versions) ==
    [i \in 1..Len(member_versions) |-> Rat(1, Len(member_versions))]

\* Line 389 without the division: the weights are stored as given
NormalizeSkipped(weights) == weights

\* Line 389: [w / sum(weights) for w in weights]
Normalize(weights) ==
    [i \in 1..Len(weights) |-> RatDiv(weights[i], RatSum(weights))]

\* Lines 384-397 alone, after the category is looked up: the members are not
CreateEnsembleMembersUnchecked(reg, category, member_versions, weights) ==
    IF category \notin DOMAIN reg
    THEN Raise("ValueError")
    ELSE IF weights = NoWeights /\ Len(member_versions) = 0
    THEN Raise("ZeroDivisionError")
    ELSE LET given == IF weights = NoWeights THEN DefaultWeights(member_versions) ELSE weights
         IN IF Len(given) > 0 /\ RatSum(given) = Zero
            THEN Raise("ZeroDivisionError")
            ELSE Ok(EnsembleRecord(member_versions, Normalize(given)))

\* Lines 376-397: the record create_ensemble stores, or the error it raises
CreateEnsembleResult(reg, category, member_versions, weights) ==
    IF category \notin DOMAIN reg
    THEN Raise("ValueError")
    ELSE IF \E i \in 1..Len(member_versions) :
                member_versions[i] \notin DOMAIN reg[category].versions
    THEN Raise("ValueError")
    ELSE IF weights = NoWeights /\ Len(member_versions) = 0
    THEN Raise("ZeroDivisionError")
    ELSE LET given == IF weights = NoWeights THEN DefaultWeights(member_versions) ELSE weights
         IN IF Len(given) > 0 /\ RatSum(given) = Zero
            THEN Raise("ZeroDivisionError")
            ELSE Ok(EnsembleRecord(member_versions, Normalize(given)))

-----------------------------------------------------------------------------
(* get_model *)

\* Lines 177-181: the version get_model looks up
ResolveVersion(defaults, category, version, model_type) ==
    IF model_type = "ensemble" THEN ensemble
    ELSE IF version = None
         THEN IF category \in DOMAIN defaults THEN defaults[category] ELSE v1
         ELSE version

\* A model object: its identity, the arguments of the get_model call that built it,
\* and what it was built from
Handle(id, category, version, info, members, weights) ==
    [id |-> id, category |-> category, version |-> version, info |-> info,
     members |-> members, weights |-> weights]

\* _load_single_model: a model built from the record's path and architecture;
\* a record without a path raises KeyError
LoadSingleModel(info, id) ==
    IF "path" \notin DOMAIN info
    THEN Raise("KeyError")
    ELSE Ok([id |-> id, info |-> info])

\* Lines 254-267: the member models loaded for members[i..], the next identity
\* being id; 'ensemble' and unregistered members are skipped
RECURSIVE LoadMembers(_, _, _, _)
LoadMembers(versions, members, i, id) ==
    IF i > Len(members) THEN [ok |-> TRUE, value |-> <<>>, next |-> id]
    ELSE IF members[i] = ensemble \/ members[i] \notin DOMAIN versions
    THEN LoadMembers(versions, members, i + 1, id)
    ELSE LET m == LoadSingleModel(versions[members[i]], id)
         IN IF ~m.ok
            THEN [ok |-> FALSE, error |-> m.error, next |-> id]
            ELSE LET rest == LoadMembers(versions, members, i + 1, id + 1)
                 IN IF ~rest.ok THEN rest
                    ELSE [ok |-> TRUE, value |-> <<m.value>> \o rest.value, next |-> rest.next]

\* EnsembleModel.__init__: [w / total for w in weights]
EnsembleWeights(weights) ==
    [i \in 1..Len(weights) |-> RatDiv(weights[i], RatSum(weights))]

\* Lines 196-203: the model built for a record, the next identity being id:
\* [ok, value (the handle), next] or [ok, error, next]
BuildModel(reg, category, version, id) ==
    LET info == reg[category].versions[version]
    IN IF info.architecture = "ensemble"
       THEN IF "members" \notin DOMAIN info \/ "weights" \notin DOMAIN info
            THEN [ok |-> FALSE, error |-> "ValueError", next |-> id]
            ELSE IF Len(info.members) # Len(info.weights)
            THEN [ok |-> FALSE, error |-> "ValueError", next |-> id]
            ELSE LET ms == LoadMembers(reg[category].versions, info.members, 1, id)
                 IN IF ~ms.ok THEN ms
                    ELSE IF Len(info.weights) > 0 /\ RatSum(info.weights) = Zero
                    THEN [ok |-> FALSE, error |-> "ZeroDivisionError", next |-> ms.next]
                    ELSE [ok |-> TRUE,
                          value |-> Handle(ms.next, category, version, info, ms.value,
                                           EnsembleWeights(info.weights)),
                          next |-> ms.next + 1]
       ELSE LET m == LoadSingleModel(info, id)
            IN IF ~m.ok THEN [ok |-> FALSE, error |-> m.error, next |-> id]
               ELSE [ok |-> TRUE,
                     value |-> Handle(id, category, version, info, <<>>, <<>>),
                     next |-> id + 1]

\* Line 193 looking the model up under a key the cache never holds
CachedUnderOtherKey(cache, cache_key) == (<<"_">> \o cache_key) \in DOMAIN cache

\* Line 193: cache_key in self._models
Cached(cache, cache_key) == cache_key \in DOMAIN cache

-----------------------------------------------------------------------------
(* Arguments the calls are made with *)

Categories == {ear, ear_x}
Versions == {v1, x_v1}
RegisteredVersions == {v1, x_v1}
DefaultedVersions == {v1, v2}
Architectures == {"resnet50", "mobilenet"}
Paths == {"custom_model"}
Preprocessings == {"standard"}
EnsembleNames == {ensemble, v1}
MemberLists == {<<>>, <<v1, v2>>, <<ensemble, v1>>}
WeightLists == {NoWeights, <<>>, <<Rat(3, 1), Rat(1, 1)>>, <<Rat(6, 10), Rat(4, 10)>>,
                <<Rat(1, 1), Rat(-1, 1)>>}
\* get_model(category), get_model(category, version), get_model(category, model_type='ensemble')
Workers == {"w1", "w2"}
GetArguments ==
    {<<None, "none">>, <<None, "ensemble">>} \cup {<<v, "none">> : v \in Versions}

-----------------------------------------------------------------------------
(* The analyzers before any of their calls *)

\* No analysis has selected labels
NoSelection ==
    /\ predictions = <<>>
    /\ confidence_threshold = Zero
    /\ indices = <<>>

\* The binary classifier has not been called
NoReduction ==
    /\ multiclass_results = <<>>
    /\ infection_threshold = Zero
    /\ binary_result = <<>>

\* model_loader as imported: an empty cache, no saved model
NoLegacy ==
    /\ model_cache = EmptyDict
    /\ model_files = {}
    /\ load_calls = 0

-----------------------------------------------------------------------------
(* The calls, each as one step (a single caller) *)

Init ==
    /\ registry = DefaultRegistry
    /\ default_models = DefaultDefaultModels
    /\ models = EmptyDict
    /\ file = SaveRegistry(DefaultRegistry)
    /\ nbuilt = 0
    /\ last = [op |-> "init"]
    /\ served = EmptyDict
    /\ ops = 0
    /\ pc = [w \in Workers |-> "idle"]
    /\ frame = [w \in Workers |-> [op |-> "none"]]
    /\ log = {}
    /\ built = EmptyDict
    /\ predictions = <<>>
    /\ confidence_threshold = Zero
    /\ indices = <<>>
    /\ NoReduction
    /\ NoLegacy

\* register_model(category, version, model_path, architecture, is_default, preprocessing)
RegisterModel(category, version, model_path, architecture, is_default, preprocessing) ==
    /\ ops < MaxOps
    /\ registry' = RegisterInRegistry(registry, category, version, model_path,
                                      architecture, is_default, preprocessing)
    /\ default_models' = IF is_default THEN Put(default_models, category, version)
                         ELSE default_models
    /\ file' = SaveRegistry(registry')
    /\ models' = ClearCategoryCache(models, category)
    /\ last' = [op |-> "register_model", category |-> category, version |-> version,
                record |-> SingleRecord(architecture, model_path, preprocessing),
                is_default |-> is_default, result |-> Ok(None)]
    /\ served' = EmptyDict
    /\ ops' = ops + 1
    /\ UNCHANGED <<nbuilt, workers, analysis>>

\* set_default_model(category, version)
SetDefaultModel(category, version) ==
    /\ ops < MaxOps
    /\ LET r == SetDefaultResult(registry, category, version)
       IN IF r.ok
          THEN /\ registry' = r.value
               /\ default_models' = Put(default_models, category, version)
               /\ file' = SaveRegistry(registry')
               /\ served' = EmptyDict
               /\ last' = [op |-> "set_default_model", category |-> category,
                           version |-> version, result |-> Ok(None)]
          ELSE /\ UNCHANGED <<registry, default_models, file, served>>
               /\ last' = [op |-> "set_default_model", category |-> category,
                           version |-> version, result |-> r]
    /\ ops' = ops + 1
    /\ UNCHANGED <<models, nbuilt, workers, analysis>>

\* create_ensemble(category, ensemble_name, member_versions, weights)
CreateEnsemble(category, ensemble_name, member_versions, weights) ==
    /\ ops < MaxOps
    /\ LET r == CreateEnsembleResult(registry, category, member_versions, weights)
       IN /\ IF r.ok
             THEN /\ registry' = Put(registry, category,
                                     WithVersion(registry[category], ensemble_name, r.value))
                  /\ file' = SaveRegistry(registry')
                  /\ served' = EmptyDict
             ELSE UNCHANGED <<registry, file, served>>
          /\ last' = [op |-> "create_ensemble", category |-> category,
                      version |-> ensemble_name, members |-> member_versions,
                      weights |-> weights, result |-> r]
    /\ ops' = ops + 1
    /\ UNCHANGED <<default_models, models, nbuilt, workers, analysis>>

\* The call made to get_model and its outcome; cached tells that line 194 returned
GetModelCall(category, v, version, model_type, cached, result) ==
    [op |-> "get_model", category |-> category, version |-> v, requested |-> version,
     model_type |-> model_type, cached |-> cached, result |-> result]

\* Lines 177-207: what get_model returns or raises, the version it resolved, whether
\* line 194 returned, and the cache and the next identity it leaves
GetModelOutcome(reg, defaults, cache, id, category, version, model_type) ==
    LET v == ResolveVersion(defaults, category, version, model_type)
        key == CacheKey(category, v)
    IN IF ~VersionRegistered(reg, category, v)
       THEN [version |-> v, cached |-> FALSE, result |-> Raise("ValueError"),
             models |-> cache, nbuilt |-> id]
       ELSE IF Cached(cache, key)
       THEN [version |-> v, cached |-> TRUE, result |-> Ok(cache[key]),
             models |-> cache, nbuilt |-> id]
       ELSE LET b == BuildModel(reg, category, v, id)
            IN IF b.ok
               THEN [version |-> v, cached |-> FALSE, result |-> Ok(b.value),
                     models |-> Put(cache, key, b.value), nbuilt |-> b.next]
               ELSE [version |-> v, cached |-> FALSE, result |-> Raise(b.error),
                     models |-> cache, nbuilt |-> b.next]

\* get_model(category, version, model_type)
GetModel(category, version, model_type) ==
    /\ ops < MaxOps
    /\ LET got == GetModelOutcome(registry, default_models, models, nbuilt,
                                  category, version, model_type)
       IN /\ models' = got.models
          /\ nbuilt' = got.nbuilt
          /\ served' = IF got.result.ok
                       THEN Put(served, <<category, got.version>>, got.result.value)
                       ELSE served
          /\ last' = GetModelCall(category, got.version, version, model_type,
                                  got.cached, got.result)
    /\ ops' = ops + 1
    /\ UNCHANGED <<registry, default_models, file, workers, analysis>>

\* get_registry(): the projection, or KeyError for a category without default_version
GetRegistry ==
    /\ ops < MaxOps
    /\ last' = [op |-> "get_registry",
                result |-> IF \A c \in DOMAIN registry : HasDefault(registry[c])
                           THEN Ok([c \in DOMAIN registry |->
                                      [defaultVersion |-> registry[c].default_version,
                                       versions |-> DOMAIN registry[c].versions,
                                       details |-> registry[c].versions]])
                           ELSE Raise("KeyError")]
    /\ ops' = ops + 1
    /\ UNCHANGED <<registry, default_models, models, file, nbuilt, served, workers, analysis>>

\* clear_cache()
ClearCache ==
    /\ ops < MaxOps
    /\ models' = EmptyDict
    /\ served' = EmptyDict
    /\ last' = [op |-> "clear_cache", result |-> Ok(None)]
    /\ ops' = ops + 1
    /\ UNCHANGED <<registry, default_models, file, nbuilt, workers, analysis>>

Next ==
    \/ \E c \in Categories, v \in RegisteredVersions, p \in Paths,
          a \in Architectures, d \in BOOLEAN, pre \in Preprocessings :
          RegisterModel(c, v, p, a, d, pre)
    \/ \E c \in Categories, v \in DefaultedVersions : SetDefaultModel(c, v)
    \/ \E c \in Categories, e \in EnsembleNames, ms \in MemberLists,
          ws \in WeightLists :
          CreateEnsemble(c, e, ms, ws)
    \/ \E c \in Categories, a \in GetArguments : GetModel(c, a[1], a[2])
    \/ GetRegistry
    \/ ClearCache

Spec == Init /\ [][Next]_vars

-----------------------------------------------------------------------------
(* The calls made by concurrent workers sharing the registry.  The code takes no   *)
(* lock, so a call is a sequence of steps between which other workers run.         *)

\* Calls the workers make
MaxCalls == 2
WorkerGetArguments == Categories \X {v1}
WorkerRegisterArguments == Categories \X RegisteredVersions \X {"mobilenet"} \X BOOLEAN

\* The sequential callers' bookkeeping, which the workers leave alone
sequential == <<last, served>>

\* The worker's call ends with an outcome
Return(w, result) ==
    /\ pc' = [pc EXCEPT ![w] = "idle"]
    /\ frame' = [frame EXCEPT ![w] = [frame[w] EXCEPT !.result = result]]

\* The worker goes on to another place of its call
Goto(w, place) == pc' = [pc EXCEPT ![w] = place]

\* A worker calls get_model(category, version)
StartGetModel(w, category, version) ==
    /\ pc[w] = "idle"
    /\ ops < MaxCalls
    /\ ops' = ops + 1
    /\ Goto(w, "get_check")
    /\ frame' = [frame EXCEPT ![w] = [op |-> "get_model", category |-> category,
                                      version |-> version, result |-> None]]
    /\ UNCHANGED <<registry, default_models, models, file, nbuilt, log, built, sequential, analysis>>

\* Lines 177-197: the version is resolved and looked up in the registry and the cache
GetCheck(w) ==
    /\ pc[w] = "get_check"
    /\ LET c == frame[w].category
           v == ResolveVersion(default_models, c, frame[w].version, "none")
           key == CacheKey(c, v)
       IN IF ~VersionRegistered(registry, c, v)
          THEN Return(w, Raise("ValueError"))
          ELSE IF Cached(models, key)
          THEN Return(w, Ok(models[key]))
          ELSE /\ Goto(w, "get_load")
               /\ frame' = [frame EXCEPT ![w] = [frame[w] EXCEPT !.version = v]]
    /\ UNCHANGED <<registry, default_models, models, file, nbuilt, log, built, ops,
                   sequential, analysis>>

\* Lines 199-203: the model is loaded or created
GetLoad(w) ==
    /\ pc[w] = "get_load"
    /\ LET c == frame[w].category
           v == frame[w].version
           key == CacheKey(c, v)
           b == BuildModel(registry, c, v, nbuilt)
       IN /\ nbuilt' = b.next
          /\ IF b.ok
             THEN /\ Goto(w, "get_store")
                  /\ frame' = [frame EXCEPT ![w] = [frame[w] EXCEPT !.result = Ok(b.value)]]
                  /\ built' = Put(built, key,
                                  (IF key \in DOMAIN built THEN built[key] ELSE {})
                                      \cup {b.value.id})
             ELSE /\ Return(w, Raise(b.error))
                  /\ UNCHANGED built
    /\ UNCHANGED <<registry, default_models, models, file, log, ops, sequential, analysis>>

\* Lines 205-207: the model is cached and returned
GetStore(w) ==
    /\ pc[w] = "get_store"
    /\ models' = Put(models, CacheKey(frame[w].category, frame[w].version),
                     frame[w].result.value)
    /\ Goto(w, "idle")
    /\ UNCHANGED <<registry, default_models, file, nbuilt, frame, log, built, ops,
                   sequential, analysis>>

\* A worker calls register_model(category, version, 'custom_model', architecture, is_default)
StartRegisterModel(w, category, version, architecture, is_default) ==
    /\ pc[w] = "idle"
    /\ ops < MaxCalls
    /\ ops' = ops + 1
    /\ Goto(w, "reg_ensure")
    /\ frame' = [frame EXCEPT ![w] = [op |-> "register_model", category |-> category,
                                      version |-> version, is_default |-> is_default,
                                      record |-> SingleRecord(architecture, "custom_model",
                                                              "standard"),
                                      encoded |-> 0, buffer |-> <<>>, offset |-> 0,
                                      size |-> 0, result |-> None]]
    /\ UNCHANGED <<registry, default_models, models, file, nbuilt, log, built, sequential, analysis>>

\* Line 324: category not in self._registry
RegEnsure(w) ==
    /\ pc[w] = "reg_ensure"
    /\ Goto(w, IF frame[w].category \notin DOMAIN registry THEN "reg_create" ELSE "reg_store")
    /\ UNCHANGED <<registry, default_models, models, file, nbuilt, frame, log, built, ops,
                   sequential, analysis>>

\* Line 325: self._registry[category] = {'versions': {}}
RegCreate(w) ==
    /\ pc[w] = "reg_create"
    /\ registry' = Put(registry, frame[w].category, [versions |-> EmptyDict])
    /\ Goto(w, "reg_store")
    /\ UNCHANGED <<default_models, models, file, nbuilt, frame, log, built, ops, sequential, analysis>>

\* Lines 327-338: the record is stored in the category's versions and, if requested,
\* made the default
RegStore(w) ==
    /\ pc[w] = "reg_store"
    /\ LET data == WithVersion(registry[frame[w].category], frame[w].version,
                               frame[w].record)
       IN registry' = Put(registry, frame[w].category,
                          IF frame[w].is_default THEN WithDefault(data, frame[w].version)
                          ELSE data)
    /\ default_models' = IF frame[w].is_default
                         THEN Put(default_models, frame[w].category, frame[w].version)
                         ELSE default_models
    /\ Goto(w, "save_open")
    /\ UNCHANGED <<models, file, nbuilt, frame, log, built, ops, sequential, analysis>>

\* Line 88: open(registry_path, 'w') truncates the file; the writer has its own
\* offset and buffer
SaveOpen(w) ==
    /\ pc[w] = "save_open"
    /\ file' = <<>>
    /\ frame' = [frame EXCEPT ![w] = [frame[w] EXCEPT
                     !.encoded = 0, !.buffer = <<>>, !.offset = 0,
                     !.size = Cardinality(DOMAIN registry)]]
    /\ Goto(w, "save_write")
    /\ UNCHANGED <<registry, default_models, models, nbuilt, log, built, ops, sequential, analysis>>

\* The file with chunks written at an offset, a gap before them reading as NUL
WriteAt(content, offset, chunks) ==
    LET end == offset + Len(chunks)
    IN [i \in 1..(IF Len(content) > end THEN Len(content) ELSE end) |->
           IF i > offset /\ i <= end THEN chunks[i - offset]
           ELSE IF i <= Len(content) THEN content[i]
           ELSE [tok |-> "nul"]]

\* Line 89: json.dump encodes the next chunk of the registry as it is now into the
\* writer's buffer; a registry that gained a category since the iteration began ends
\* the iteration with RuntimeError, and leaving the with block flushes the buffer
SaveEncode(w) ==
    /\ pc[w] = "save_write"
    /\ frame[w].encoded < frame[w].size + 2
    /\ IF Cardinality(DOMAIN registry) # frame[w].size
       THEN /\ Return(w, Raise("RuntimeError"))
            /\ file' = WriteAt(file, frame[w].offset, frame[w].buffer)
       ELSE /\ frame' = [frame EXCEPT ![w] = [frame[w] EXCEPT
                            !.encoded = @ + 1,
                            !.buffer = Append(@, Dump(registry)[frame[w].encoded + 1])]]
            /\ UNCHANGED <<file, pc>>
    /\ UNCHANGED <<registry, default_models, models, nbuilt, log, built, ops, sequential, analysis>>

\* Line 89: the buffer is written to the file when it is full, which may be after any chunk
SaveFlush(w) ==
    /\ pc[w] = "save_write"
    /\ frame[w].buffer # <<>>
    /\ frame[w].encoded < frame[w].size + 2
    /\ file' = WriteAt(file, frame[w].offset, frame[w].buffer)
    /\ frame' = [frame EXCEPT ![w] = [frame[w] EXCEPT
                     !.offset = @ + Len(frame[w].buffer), !.buffer = <<>>]]
    /\ UNCHANGED <<registry, default_models, models, nbuilt, log, built, ops, pc,
                   sequential, analysis>>

\* Lines 88-89: leaving the with block writes the rest of the buffer and closes the file
SaveClose(w) ==
    /\ pc[w] = "save_write"
    /\ frame[w].encoded = frame[w].size + 2
    /\ file' = WriteAt(file, frame[w].offset, frame[w].buffer)
    /\ frame' = [frame EXCEPT ![w] = [frame[w] EXCEPT
                     !.offset = @ + Len(frame[w].buffer), !.buffer = <<>>]]
    /\ Goto(w, "reg_clear")
    /\ UNCHANGED <<registry, default_models, models, nbuilt, log, built, ops, sequential, analysis>>

\* Lines 343-346: the category's keys are deleted from the cache, and the call returns
RegClear(w) ==
    /\ pc[w] = "reg_clear"
    /\ models' = ClearCategoryCache(models, frame[w].category)
    /\ built' = ClearCategoryCache(built, frame[w].category)
    /\ log' = log \cup {[category |-> frame[w].category, version |-> frame[w].version,
                         record |-> frame[w].record]}
    /\ Return(w, Ok(None))
    /\ UNCHANGED <<registry, default_models, file, nbuilt, ops, sequential, analysis>>

NextConcurrent ==
    \/ \E w \in Workers, a \in WorkerGetArguments : StartGetModel(w, a[1], a[2])
    \/ \E w \in Workers : GetCheck(w)
    \/ \E w \in Workers : GetLoad(w)
    \/ \E w \in Workers : GetStore(w)
    \/ \E w \in Workers, a \in WorkerRegisterArguments :
          StartRegisterModel(w, a[1], a[2], a[3], a[4])
    \/ \E w \in Workers : RegEnsure(w)
    \/ \E w \in Workers : RegCreate(w)
    \/ \E w \in Workers : RegStore(w)
    \/ \E w \in Workers : SaveOpen(w)
    \/ \E w \in Workers : SaveEncode(w)
    \/ \E w \in Workers : SaveFlush(w)
    \/ \E w \in Workers : SaveClose(w)
    \/ \E w \in Workers : RegClear(w)

SpecConcurrent == Init /\ [][NextConcurrent]_vars

-----------------------------------------------------------------------------
(* The registry a starting process constructs from the file earlier processes left *)

\* The number of register_model calls earlier processes made
MaxPersisted == 2

\* The registries after n register_model calls on the registry of a fresh install
RECURSIVE RegistriesAfter(_)
RegistriesAfter(n) ==
    IF n = 0 THEN {DefaultRegistry}
    ELSE LET before == RegistriesAfter(n - 1)
         IN before \cup
            {RegisterInRegistry(reg, c, v, p, a, d, pre) :
                reg \in before, c \in Categories, v \in RegisteredVersions, p \in Paths,
                a \in Architectures, d \in BOOLEAN, pre \in Preprocessings}

\* The documents earlier processes saved
Documents == {Dump(reg) : reg \in RegistriesAfter(MaxPersisted)}

\* The file a starting process finds: none, a saved document, or a document cut short
\* (line 88 truncates the file before line 89 writes it)
Files ==
    {Absent} \cup Documents
    \cup {SubSeq(doc, 1, n) : doc \in Documents, n \in 0..3}

\* The process has not constructed its ModelRegistry yet
InitLoad ==
    /\ registry = EmptyDict
    /\ default_models = EmptyDict
    /\ models = EmptyDict
    /\ file \in Files
    /\ nbuilt = 0
    /\ last = [op |-> "start"]
    /\ served = EmptyDict
    /\ ops = 0
    /\ pc = [w \in Workers |-> "idle"]
    /\ frame = [w \in Workers |-> [op |-> "none"]]
    /\ log = {}
    /\ built = EmptyDict
    /\ predictions = <<>>
    /\ confidence_threshold = Zero
    /\ indices = <<>>
    /\ NoReduction
    /\ NoLegacy

\* ModelRegistry(): _initialize and _load_registry; source tells where the registry
\* came from
LoadRegistry ==
    /\ last.op = "start"
    /\ models' = EmptyDict
    /\ IF file # Absent /\ WellFormed(file)
       THEN /\ registry' = Load(file)
            /\ default_models' = LoadDefaultModels(registry')
            /\ UNCHANGED file
            /\ last' = [op |-> "load_registry", source |-> "file", result |-> Ok(None)]
       ELSE /\ registry' = DefaultRegistry
            /\ default_models' = DefaultDefaultModels
            /\ file' = SaveRegistry(registry')
            /\ last' = [op |-> "load_registry", source |-> "default", result |-> Ok(None)]
    /\ ops' = ops + 1
    /\ UNCHANGED <<nbuilt, served, workers, analysis>>

NextLoad == LoadRegistry

SpecLoad == InitLoad /\ [][NextLoad]_vars

-----------------------------------------------------------------------------
(* analyze_image: the labels selected from the scores of the model.  Indices are   *)
(* counted from 0 as numpy counts them; scores[i + 1] is the score of index i.     *)

\* The number of conditions of the catalog, and of scores the model gives
NumConditions == 3

\* a > b
RatGreater(a, b) == a.n * b.d > b.n * a.d

\* Line 150 with >= for >
ReachesThreshold(score, threshold) == ~RatGreater(threshold, score)

\* Line 150: predictions[0] > confidence_threshold, for one score
Exceeds(score, threshold) == RatGreater(score, threshold)

\* np.where(scores > threshold)[0]: the indices from i - 1 on whose score exceeds the
\* threshold, ascending
RECURSIVE Where(_, _, _)
Where(scores, threshold, i) ==
    IF i > Len(scores) THEN <<>>
    ELSE (IF Exceeds(scores[i], threshold) THEN <<i - 1>> ELSE <<>>)
         \o Where(scores, threshold, i + 1)

\* scores[idx]: the scores at the indices
At(scores, idx) == [k \in 1..Len(idx) |-> scores[idx[k] + 1]]

\* s[::-1]
Reverse(s) == [k \in 1..Len(s) |-> s[Len(s) + 1 - k]]

\* Line 154 without the [:2]
WholeSequence(s, n) == s

\* s[:n]
FirstN(s, n) == SubSeq(s, 1, IF Len(s) < n THEN Len(s) ELSE n)

\* np.argsort(scores): the orders it may return, every order of the indices in which
\* the scores ascend; the default sort is not stable, so equal scores come in any order
ArgSorts(scores) ==
    {p \in [1..Len(scores) -> 0..(Len(scores) - 1)] :
        /\ \A k, l \in 1..Len(scores) : p[k] = p[l] => k = l
        /\ \A k, l \in 1..Len(scores) :
              k < l => ~RatGreater(scores[p[k] + 1], scores[p[l] + 1])}

\* Lines 150-156: the indices analyze_image may select
SelectedIndices(scores, threshold) ==
    LET above == Where(scores, threshold, 1)
    IN IF Len(above) = 0
       THEN {FirstN(Reverse(p), 2) : p \in ArgSorts(scores)}
       ELSE {At(above, Reverse(p)) : p \in ArgSorts(At(scores, above))}

\* Lines 167-186: a result for every selected index the catalog has a condition for
ResultIndices(selected, conditions) ==
    SelectSeq(selected, LAMBDA idx : idx < conditions)

\* Scores and thresholds analyze_image is given
Scores == {Rat(5, 100), Rat(20, 100), Rat(90, 100)}
Thresholds == {Rat(15, 100), Rat(20, 100), Rat(11, 10)}

\* The model has given its scores for an image
InitClassify ==
    /\ registry = DefaultRegistry
    /\ default_models = DefaultDefaultModels
    /\ models = EmptyDict
    /\ file = SaveRegistry(DefaultRegistry)
    /\ nbuilt = 0
    /\ last = [op |-> "start"]
    /\ served = EmptyDict
    /\ ops = 0
    /\ pc = [w \in Workers |-> "idle"]
    /\ frame = [w \in Workers |-> [op |-> "none"]]
    /\ log = {}
    /\ built = EmptyDict
    /\ predictions \in [1..NumConditions -> Scores]
    /\ confidence_threshold \in Thresholds
    /\ indices = <<>>
    /\ NoReduction
    /\ NoLegacy

\* analyze_image, from the scores to the results
AnalyzeImage ==
    /\ last.op = "start"
    /\ \E selected \in SelectedIndices(predictions, confidence_threshold) :
          indices' = ResultIndices(selected, NumConditions)
    /\ last' = [op |-> "analyze_image", result |-> Ok(None)]
    /\ ops' = ops + 1
    /\ UNCHANGED <<registry, default_models, models, file, nbuilt, served, workers,
                   predictions, confidence_threshold, reduction, legacy>>

NextClassify == AnalyzeImage

SpecClassify == InitClassify /\ [][NextClassify]_vars

-----------------------------------------------------------------------------
(* binary_classifier: the binary result made from multiclass results *)

\* The longest list of multiclass results
MaxResults == 2

\* 1.0 - a
OneMinus(a) == Rat(a.d - a.n, a.d)

\* Lines 146-152 keeping the confidence of the first result only
FirstConfidence(results) ==
    IF results = <<>> THEN Zero ELSE results[1].confidence

\* Lines 146-152: max_confidence, which starts at 0
RECURSIVE MaxConfidence(_)
MaxConfidence(results) ==
    IF results = <<>> THEN Zero
    ELSE LET rest == MaxConfidence(SubSeq(results, 1, Len(results) - 1))
             confidence == results[Len(results)].confidence
         IN IF RatGreater(confidence, rest) THEN confidence ELSE rest

\* Lines 147-155: has_serious_condition
HasSeriousCondition(results, threshold) ==
    \E i \in 1..Len(results) :
        results[i].isPotentiallySerious /\ RatGreater(results[i].confidence, threshold)

\* Lines 165-170: the band of the recommendation text
RecommendationBand(confidence) ==
    IF RatGreater(confidence, Rat(7, 10)) THEN "High"
    ELSE IF RatGreater(confidence, Rat(5, 10)) THEN "Moderate"
    ELSE "Low"

\* get_binary_classification_from_multiclass: the list returned
BinaryClassification(results, threshold) ==
    LET max_confidence == MaxConfidence(results)
        is_infected == \/ HasSeriousCondition(results, threshold)
                       \/ RatGreater(max_confidence, threshold)
        confidence == IF is_infected THEN max_confidence ELSE OneMinus(max_confidence)
    IN <<[id |-> IF is_infected THEN "infected" ELSE "normal",
          confidence |-> confidence,
          recommendation |-> RecommendationBand(confidence)]>>

\* Results and thresholds the binary classifier is given
Confidences == {Rat(2, 10), Rat(4, 10), Rat(8, 10)}
MulticlassResults ==
    UNION {[1..n -> [confidence : Confidences, isPotentiallySerious : BOOLEAN]] :
              n \in 0..MaxResults}
InfectionThresholds == {Rat(3, 10), Rat(4, 10)}

\* The multiclass results are at hand
InitReduce ==
    /\ registry = DefaultRegistry
    /\ default_models = DefaultDefaultModels
    /\ models = EmptyDict
    /\ file = SaveRegistry(DefaultRegistry)
    /\ nbuilt = 0
    /\ last = [op |-> "start"]
    /\ served = EmptyDict
    /\ ops = 0
    /\ pc = [w \in Workers |-> "idle"]
    /\ frame = [w \in Workers |-> [op |-> "none"]]
    /\ log = {}
    /\ built = EmptyDict
    /\ NoSelection
    /\ multiclass_results \in MulticlassResults
    /\ infection_threshold \in InfectionThresholds
    /\ binary_result = <<>>
    /\ NoLegacy

\* get_binary_classification_from_multiclass(conditions, infection_threshold)
GetBinaryClassification ==
    /\ last.op = "start"
    /\ binary_result' = BinaryClassification(multiclass_results, infection_threshold)
    /\ last' = [op |-> "get_binary_classification_from_multiclass", result |-> Ok(None)]
    /\ ops' = ops + 1
    /\ UNCHANGED <<registry, default_models, models, file, nbuilt, served, workers,
                   selection, multiclass_results, infection_threshold, legacy>>

NextReduce == GetBinaryClassification

SpecReduce == InitReduce /\ [][NextReduce]_vars

-----------------------------------------------------------------------------
(* image_analyzer and model_loader: the analyzer with one model for each type *)

\* Image data: '' (nothing), the bytes of an image, bytes that are no image
Images == {"empty", "image", "garbage"}

\* The type argument of analyze_image
Types == {throat, ear, ear_x}

\* The scores a model gives the three conditions of a type
LegacyScores ==
    {<<Rat(20, 100), Rat(5, 100), Rat(90, 100)>>,
     <<Rat(90, 100), Rat(90, 100), Rat(5, 100)>>}

\* Lines 129-133 checking the image only
EmptyImageOnly(image_data, type) ==
    IF image_data = "empty" THEN Raise("ValueError") ELSE Ok(None)

\* Lines 129-133: the parameters are validated
ValidateParameters(image_data, type) ==
    IF image_data = "empty" THEN Raise("ValueError")
    ELSE IF type \notin {throat, ear} THEN Raise("ValueError")
    ELSE Ok(None)

\* load_model(model_type): the model returned, the cache and the saved models it leaves
LoadModel(cache, saved, model_type) ==
    IF model_type \in DOMAIN cache
    THEN [model |-> cache[model_type], cache |-> cache, saved |-> saved]
    ELSE LET model == [type |-> model_type,
                       source |-> IF model_type \in saved THEN "saved" ELSE "mock"]
         IN [model |-> model, cache |-> Put(cache, model_type, model),
             saved |-> saved \cup {model_type}]

\* result_conditions.sort(key=confidence, reverse=True): the indices by descending
\* score, equal scores in their original order
SortedDescending(scores) ==
    CHOOSE p \in [1..Len(scores) -> 0..(Len(scores) - 1)] :
        /\ \A k, l \in 1..Len(scores) : p[k] = p[l] => k = l
        /\ \A k, l \in 1..Len(scores) :
              k < l => \/ RatGreater(scores[p[k] + 1], scores[p[l] + 1])
                       \/ scores[p[k] + 1] = scores[p[l] + 1] /\ p[k] < p[l]

\* Lines 135-166: what analyze_image returns or raises once a model is loaded
AnalysisResult(image_data, type, scores) ==
    IF image_data = "garbage" THEN Raise("Exception")
    ELSE IF type \notin {throat, ear} THEN Raise("Exception")
    ELSE Ok(FirstN(SortedDescending(scores), 2))

\* model_loader and image_analyzer as imported, with the saved models of earlier runs
InitLegacy ==
    /\ registry = DefaultRegistry
    /\ default_models = DefaultDefaultModels
    /\ models = EmptyDict
    /\ file = SaveRegistry(DefaultRegistry)
    /\ nbuilt = 0
    /\ last = [op |-> "start"]
    /\ served = EmptyDict
    /\ ops = 0
    /\ pc = [w \in Workers |-> "idle"]
    /\ frame = [w \in Workers |-> [op |-> "none"]]
    /\ log = {}
    /\ built = EmptyDict
    /\ NoSelection
    /\ NoReduction
    /\ model_cache = EmptyDict
    /\ model_files \in SUBSET {throat, ear}
    /\ load_calls = 0

\* image_analyzer.analyze_image(image_data, type)
LegacyAnalyzeImage(image_data, type) ==
    /\ ops < MaxOps
    /\ LET valid == ValidateParameters(image_data, type)
       IN IF ~valid.ok
          THEN /\ last' = [op |-> "image_analyzer.analyze_image", image_data |-> image_data,
                           type |-> type, result |-> valid]
               /\ UNCHANGED legacy
          ELSE \E scores \in LegacyScores :
                  LET loaded == LoadModel(model_cache, model_files, type)
                  IN /\ model_cache' = loaded.cache
                     /\ model_files' = loaded.saved
                     /\ load_calls' = load_calls + 1
                     /\ last' = [op |-> "image_analyzer.analyze_image",
                                 image_data |-> image_data, type |-> type,
                                 result |-> AnalysisResult(image_data, type, scores)]
    /\ ops' = ops + 1
    /\ UNCHANGED <<registry, default_models, models, file, nbuilt, served, workers,
                   selection, reduction>>

\* model_loader.clear_model_cache()
ClearModelCache ==
    /\ ops < MaxOps
    /\ model_cache' = EmptyDict
    /\ last' = [op |-> "clear_model_cache", result |-> Ok(None)]
    /\ ops' = ops + 1
    /\ UNCHANGED <<registry, default_models, models, file, nbuilt, served, workers,
                   selection, reduction, model_files, load_calls>>

NextLegacy ==
    \/ \E image_data \in Images, type \in Types : LegacyAnalyzeImage(image_data, type)
    \/ ClearModelCache

SpecLegacy == InitLegacy /\ [][NextLegacy]_vars

-----------------------------------------------------------------------------
(* enhanced_image_analyzer.analyze_image on the registry earlier processes left *)

\* Preprocessing methods register_model is given
Profiles == {"standard", "resnet"}

\* The registries after n register_model calls, each with one of the preprocessing
\* methods, on the registry of a fresh install
RECURSIVE ProfiledRegistriesAfter(_)
ProfiledRegistriesAfter(n) ==
    IF n = 0 THEN {DefaultRegistry}
    ELSE LET before == ProfiledRegistriesAfter(n - 1)
         IN before \cup
            {RegisterInRegistry(reg, c, v, p, "resnet50", d, pre) :
                reg \in before, c \in Categories, v \in RegisteredVersions, p \in Paths,
                d \in BOOLEAN, pre \in Profiles}

\* The image data and the scores a model gives it
ServedImages == {"image", "garbage"}
ServedScores ==
    {<<Rat(20, 100), Rat(5, 100), Rat(90, 100)>>,
     <<Rat(10, 100), Rat(5, 100), Rat(12, 100)>>}

\* confidence_threshold=0.15
DefaultThreshold == Rat(15, 100)

\* Lines 116-117: the analysis types analyze_image accepts
SupportedType(analysis_type) == analysis_type \in {throat, ear}

\* Lines 122-136: the preprocessing method analyze_image applies for a model
PreprocessingFor(reg, analysis_type, model) ==
    IF model.members # <<>> THEN "standard"
    ELSE IF analysis_type \in DOMAIN reg /\ HasDefault(reg[analysis_type])
    THEN LET default_version == reg[analysis_type].default_version
         IN IF /\ "versions" \in DOMAIN reg[analysis_type]
               /\ default_version \in DOMAIN reg[analysis_type].versions
            THEN LET model_info == reg[analysis_type].versions[default_version]
                 IN IF "preprocessing" \in DOMAIN model_info
                    THEN model_info.preprocessing
                    ELSE "standard"
            ELSE "standard"
    ELSE "standard"

\* The call made to analyze_image and its outcome: the version get_model resolved, the
\* preprocessing applied and the model predicted with (None before line 120 has run)
AnalyzeImageOutcome(img_data, analysis_type, v, version, model_type, pre, model, r) ==
    [op |-> "analyze_image", img_data |-> img_data, analysis_type |-> analysis_type,
     version |-> v, requested |-> version, model_type |-> model_type,
     preprocessing |-> pre, model |-> model, result |-> r]

\* A process constructs its ModelRegistry from the file earlier processes saved
InitServe ==
    /\ registry \in ProfiledRegistriesAfter(MaxPersisted)
    /\ default_models = LoadDefaultModels(registry)
    /\ models = EmptyDict
    /\ file = SaveRegistry(registry)
    /\ nbuilt = 0
    /\ last = [op |-> "start"]
    /\ served = EmptyDict
    /\ ops = 0
    /\ pc = [w \in Workers |-> "idle"]
    /\ frame = [w \in Workers |-> [op |-> "none"]]
    /\ log = {}
    /\ built = EmptyDict
    /\ NoSelection
    /\ NoReduction
    /\ NoLegacy

\* analyze_image(img_data, analysis_type, version, model_type)
AnalyzeImageCall(img_data, analysis_type, version, model_type) ==
    /\ ops < MaxOps
    /\ IF ~SupportedType(analysis_type)
       THEN /\ last' = AnalyzeImageOutcome(img_data, analysis_type, None, version,
                                           model_type, "none", None, Raise("ValueError"))
            /\ UNCHANGED <<models, nbuilt, served, selection>>
       ELSE LET got == GetModelOutcome(registry, default_models, models, nbuilt,
                                       analysis_type, version, model_type)
            IN /\ models' = got.models
               /\ nbuilt' = got.nbuilt
               /\ served' = IF got.result.ok
                            THEN Put(served, <<analysis_type, got.version>>,
                                     got.result.value)
                            ELSE served
               /\ IF ~got.result.ok
                  THEN /\ last' = AnalyzeImageOutcome(img_data, analysis_type, got.version,
                                                      version, model_type, "none", None,
                                                      got.result)
                       /\ UNCHANGED selection
                  ELSE LET model == got.result.value
                           preprocessing == PreprocessingFor(registry, analysis_type, model)
                       IN IF img_data = "garbage"
                          THEN /\ last' = AnalyzeImageOutcome(
                                              img_data, analysis_type, got.version, version,
                                              model_type, preprocessing, model,
                                              Raise("ValueError"))
                               /\ UNCHANGED selection
                          ELSE IF model.info.architecture = "ensemble" /\ model.members = <<>>
                          THEN /\ last' = AnalyzeImageOutcome(
                                              img_data, analysis_type, got.version, version,
                                              model_type, preprocessing, model,
                                              Raise("IndexError"))
                               /\ UNCHANGED selection
                          ELSE \E scores \in ServedScores :
                               \E selected \in SelectedIndices(scores, DefaultThreshold) :
                                  /\ predictions' = scores
                                  /\ confidence_threshold' = DefaultThreshold
                                  /\ indices' = ResultIndices(selected, NumConditions)
                                  /\ last' = AnalyzeImageOutcome(
                                                 img_data, analysis_type, got.version,
                                                 version, model_type, preprocessing, model,
                                                 Ok(ResultIndices(selected, NumConditions)))
    /\ ops' = ops + 1
    /\ UNCHANGED <<registry, default_models, file, workers, reduction, legacy>>

NextServe ==
    \/ \E c \in Categories, a \in GetArguments : GetModel(c, a[1], a[2])
    \/ \E img_data \in ServedImages, c \in Categories, a \in GetArguments :
          AnalyzeImageCall(img_data, c, a[1], a[2])

SpecServe == InitServe /\ [][NextServe]_vars

-----------------------------------------------------------------------------
(* Properties of the calls made by a single caller *)

\* A call has just been made
Called(op) == ops' = ops + 1 /\ last'.op = op

\* The record is an ensemble record
IsEnsembleRecord(info) == "members" \in DOMAIN info

\* What a handle was built from: its record, its members' records, its weights
Content(h) ==
    [info |-> h.info,
     members |-> [i \in 1..Len(h.members) |-> h.members[i].info],
     weights |-> h.weights]

\* C1: every category of the registry has a default_version that names one of its
\* versions, so get_registry never fails.
C1_DefaultAlwaysResolvable ==
    /\ \A c \in DOMAIN registry :
          /\ HasDefault(registry[c])
          /\ registry[c].default_version \in DOMAIN registry[c].versions
    /\ last.op = "get_registry" => last.result.ok

\* C2: register_model(c, ...) evicts exactly the handles of category c: a handle cached
\* for another category is still cached, the same object, after the call, and no
\* handle of c is.
C2_RegisterEvictsOnlyItsCategory ==
    [][Called("register_model") =>
          /\ \A k \in DOMAIN models :
                models[k].category # last'.category
                    => k \in DOMAIN models' /\ models'[k] = models[k]
          /\ \A k \in DOMAIN models' : models'[k].category # last'.category]_vars

\* C3: a handle get_model returns was built from the record now stored for its version
\* and, for an ensemble, from the members and weights now stored.
C3_ReturnedHandleIsCurrent ==
    (last.op = "get_model" /\ last.result.ok) =>
        LET b == BuildModel(registry, last.category, last.version, 0)
        IN b.ok /\ Content(b.value) = Content(last.result.value)

\* C4: a get_model call for a (category, version) that an earlier call was served, with
\* no mutation of the registry and no clear_cache since, returns the same handle and
\* constructs no model.
C4_RepeatedGetReturnsSameHandle ==
    [][(Called("get_model") /\ <<last'.category, last'.version>> \in DOMAIN served) =>
          /\ last'.result.ok
          /\ last'.result.value = served[<<last'.category, last'.version>>]
          /\ nbuilt' = nbuilt]_vars

\* The second of two get_model calls was served the model the first one built
C4_Witness ==
    /\ ops = 2
    /\ last.op = "get_model"
    /\ last.cached
    /\ nbuilt = 1
    /\ served[<<last.category, last.version>>] = last.result.value

\* create_ensemble was given weights, not all zero
GivenWeights(ws) ==
    /\ ws # NoWeights
    /\ Len(ws) > 0
    /\ \E i \in 1..Len(ws) : ws[i] # Zero

\* C8: after a successful create_ensemble with a non-empty weight list that is not all
\* zero, the weights of the stored record sum to 1.
C8_StoredWeightsSumToOne ==
    (last.op = "create_ensemble" /\ last.result.ok /\ GivenWeights(last.weights)) =>
        LET stored == registry[last.category].versions[last.version]
        IN /\ IsEnsembleRecord(stored)
           /\ Len(stored.weights) = Len(last.weights)
           /\ RatSum(stored.weights) = One

\* create_ensemble stored weights that did not sum to 1 when given
C8_Witness ==
    /\ last.op = "create_ensemble"
    /\ last.result.ok
    /\ last.weights = <<Rat(3, 1), Rat(1, 1)>>
    /\ registry[last.category].versions[last.version].weights = <<Rat(3, 4), Rat(1, 4)>>

\* C9: every member of every ensemble record is a Single record of the same category.
C9_MembersAreSingleRecords ==
    \A c \in DOMAIN registry :
        \A v \in DOMAIN registry[c].versions :
            LET info == registry[c].versions[v]
            IN IsEnsembleRecord(info) =>
                  \A i \in 1..Len(info.members) :
                      /\ info.members[i] \in DOMAIN registry[c].versions
                      /\ ~IsEnsembleRecord(registry[c].versions[info.members[i]])

\* C10: create_ensemble with a member whose record is an ensemble raises and leaves the
\* registry and the persisted document unchanged.
C10_NestedEnsembleRejected ==
    [][(/\ Called("create_ensemble")
        /\ last'.category \in DOMAIN registry
        /\ \E i \in 1..Len(last'.members) :
              /\ last'.members[i] \in DOMAIN registry[last'.category].versions
              /\ IsEnsembleRecord(registry[last'.category].versions[last'.members[i]]))
       => /\ ~last'.result.ok
          /\ registry' = registry
          /\ file' = file]_vars

-----------------------------------------------------------------------------
(* Properties of the calls made by concurrent workers *)

\* The worker's get_model call returned a handle
Got(w) == pc[w] = "idle" /\ frame[w].op = "get_model" /\ frame[w].result.ok

\* C5: for each cache key at most one model is constructed while the key is not
\* evicted, and workers that got the same (category, version) got the same handle.
C5_AtMostOneConstruction ==
    /\ \A k \in DOMAIN built : Cardinality(built[k]) <= 1
    /\ log = {} =>
          \A w1, w2 \in Workers :
              (/\ Got(w1) /\ Got(w2)
               /\ frame[w1].category = frame[w2].category
               /\ frame[w1].version = frame[w2].version)
                  => frame[w1].result.value = frame[w2].result.value

\* The registry holds the record a register_model call stored
Stored(reg, m) ==
    /\ m.category \in DOMAIN reg
    /\ m.version \in DOMAIN reg[m.category].versions
    /\ reg[m.category].versions[m.version] = m.record

\* C6: when every worker's call has returned, the registry and the persisted document
\* hold the record of every register_model call that returned (unless another call
\* stored a record under the same version), and the document is a complete registry.
C6_NoLostUpdate ==
    (\A w \in Workers : pc[w] = "idle") =>
        \A m \in log :
            (\A m2 \in log : (m2.category = m.category /\ m2.version = m.version) => m2 = m)
                => /\ Stored(registry, m)
                   /\ WellFormed(file)
                   /\ Stored(Load(file), m)

\* C7: the persisted document is at every moment a complete registry document.
C7_AtomicReplace == WellFormed(file)

-----------------------------------------------------------------------------
(* Properties of the failing and the successful mutations *)

\* C11: create_ensemble with a category that is not in the registry, or with a member
\* that is not a version of the category, raises and leaves the registry, the default
\* versions, the persisted document and the cache as they were.
C11_UnknownCategoryOrMemberRejected ==
    [][(/\ Called("create_ensemble")
        /\ \/ last'.category \notin DOMAIN registry
           \/ \E i \in 1..Len(last'.members) :
                 last'.members[i] \notin DOMAIN registry[last'.category].versions)
       => /\ ~last'.result.ok
          /\ registry' = registry
          /\ default_models' = default_models
          /\ file' = file
          /\ models' = models]_vars

\* create_ensemble raised for a member that is not a version of a category of the
\* registry, while the cache held a model
C11_Witness ==
    /\ last.op = "create_ensemble"
    /\ ~last.result.ok
    /\ last.result.error = "ValueError"
    /\ last.category \in DOMAIN registry
    /\ \E i \in 1..Len(last.members) :
          last.members[i] \notin DOMAIN registry[last.category].versions
    /\ models # EmptyDict
    /\ file = SaveRegistry(registry)

\* C12: create_ensemble with an empty member list raises a configuration error (the
\* ValueError the other rejected arguments raise) and stores no record, whatever the
\* weights are.
C12_EmptyMembersRejected ==
    [][(/\ Called("create_ensemble")
        /\ last'.category \in DOMAIN registry
        /\ last'.members = <<>>)
       => /\ ~last'.result.ok
          /\ last'.result.error = "ValueError"
          /\ registry' = registry
          /\ file' = file]_vars

\* C13: create_ensemble with weights that sum to zero raises a configuration error, not
\* an arithmetic error, and stores no record.
C13_ZeroSumWeightsRejected ==
    [][(/\ Called("create_ensemble")
        /\ last'.category \in DOMAIN registry
        /\ \A i \in 1..Len(last'.members) :
              last'.members[i] \in DOMAIN registry[last'.category].versions
        /\ last'.weights # NoWeights
        /\ Len(last'.weights) > 0
        /\ RatSum(last'.weights) = Zero)
       => /\ ~last'.result.ok
          /\ last'.result.error # "ZeroDivisionError"
          /\ registry' = registry
          /\ file' = file]_vars

\* C14: set_default_model with a version that is not a version of the category, or
\* with a category that is not in the registry, raises and leaves the registry, the
\* default versions and the persisted document as they were.
C14_SetDefaultUnknownRejected ==
    [][(/\ Called("set_default_model")
        /\ \/ last'.category \notin DOMAIN registry
           \/ last'.version \notin DOMAIN registry[last'.category].versions)
       => /\ ~last'.result.ok
          /\ registry' = registry
          /\ default_models' = default_models
          /\ file' = file]_vars

\* set_default_model raised for a version that is not a version of a category that
\* register_model created
C14_Witness ==
    /\ last.op = "set_default_model"
    /\ ~last.result.ok
    /\ last.category = ear_x
    /\ last.category \in DOMAIN registry
    /\ last.version \notin DOMAIN registry[last.category].versions
    /\ file = SaveRegistry(registry)

\* C15: a get_model call with no version and no model_type that returns a model was
\* resolved to the default_version of the category, and returned the model of that
\* version.
C15_OmittedVersionIsDefault ==
    (/\ last.op = "get_model"
     /\ last.requested = None
     /\ last.model_type # "ensemble"
     /\ last.result.ok)
        => /\ HasDefault(registry[last.category])
           /\ last.version = registry[last.category].default_version
           /\ last.result.value.version = registry[last.category].default_version

\* C16: after every call of a single caller the persisted document is a complete
\* registry document, and loading it gives the registry and the default versions the
\* caller has in memory.
C16_PersistedEqualsMemory ==
    /\ WellFormed(file)
    /\ Load(file) = registry
    /\ LoadDefaultModels(Load(file)) = default_models

\* register_model, set_default_model and create_ensemble have each changed the
\* registry, which has a category without a default version, and the document loads
\* as that registry
C16_Witness ==
    /\ ops = 3
    /\ last.op = "create_ensemble"
    /\ last.result.ok
    /\ ear_x \in DOMAIN registry
    /\ ~HasDefault(registry[ear_x])
    /\ registry[ear].default_version = v2
    /\ Load(file) = registry
    /\ Load(file) # DefaultRegistry

-----------------------------------------------------------------------------
(* Properties of the registry a starting process constructs *)

\* C17: when there is no registry file, or the file is not a complete document, the
\* registry constructed and persisted has the two categories throat and ear, each with
\* one version, a single model, which is the category's default.
C17_DefaultRegistryOneBaselineEach ==
    (last.op = "load_registry" /\ last.source = "default") =>
        /\ DOMAIN registry = {throat, ear}
        /\ \A c \in DOMAIN registry :
              /\ Cardinality(DOMAIN registry[c].versions) = 1
              /\ \A v \in DOMAIN registry[c].versions :
                    /\ ~IsEnsembleRecord(registry[c].versions[v])
                    /\ HasDefault(registry[c])
                    /\ registry[c].default_version = v
        /\ WellFormed(file)
        /\ Load(file) = registry

\* The versions of a category, none for a category the registry does not have
VersionsOf(reg, category) ==
    IF category \in DOMAIN reg THEN reg[category].versions ELSE EmptyDict

\* The default pointers of a category: the default_version of its data and its entry in
\* the default versions, each a set with at most one element
DefaultPointers(reg, defaults, category) ==
    <<IF category \in DOMAIN reg /\ HasDefault(reg[category])
      THEN {reg[category].default_version} ELSE {},
      IF category \in DOMAIN defaults THEN {defaults[category]} ELSE {}>>

\* C18: register_model(c, v, ...) leaves c in the registry with v mapped to the given
\* record; every other version of c and every other category is as it was, and so are
\* c's default pointers unless is_default is true.
C18_RegisterFrame ==
    [][Called("register_model") =>
          LET c == last'.category
              v == last'.version
          IN /\ last'.result.ok
             /\ c \in DOMAIN registry'
             /\ DOMAIN registry' = DOMAIN registry \cup {c}
             /\ DOMAIN registry'[c].versions = DOMAIN VersionsOf(registry, c) \cup {v}
             /\ registry'[c].versions[v] = last'.record
             /\ \A u \in DOMAIN VersionsOf(registry, c) \ {v} :
                   registry'[c].versions[u] = registry[c].versions[u]
             /\ \A d \in DOMAIN registry \ {c} : registry'[d] = registry[d]
             /\ \A d \in DOMAIN registry \ {c} :
                   DefaultPointers(registry', default_models', d)
                       = DefaultPointers(registry, default_models, d)
             /\ ~last'.is_default =>
                   DefaultPointers(registry', default_models', c)
                       = DefaultPointers(registry, default_models, c)
             /\ last'.is_default =>
                   DefaultPointers(registry', default_models', c) = <<{v}, {v}>>]_vars

\* register_model without is_default added a version to a category that has other
\* versions and a default that an earlier call set, and created a category
C18_Witness ==
    /\ last.op = "register_model"
    /\ ~last.is_default
    /\ last.category = ear
    /\ last.version = x_v1
    /\ registry[ear].versions[x_v1] = last.record
    /\ registry[ear].default_version = v2
    /\ default_models[ear] = v2
    /\ ear_x \in DOMAIN registry
    /\ ~HasDefault(registry[ear_x])

\* The weights a successful create_ensemble is to store: each given weight divided by
\* the sum of the given weights, 1/N each for N members when none are given
ExpectedWeights(members, weights) ==
    IF weights = NoWeights
    THEN [i \in 1..Len(members) |-> Rat(1, Len(members))]
    ELSE [i \in 1..Len(weights) |->
             Rat(weights[i].n * RatSum(weights).d, weights[i].d * RatSum(weights).n)]

\* C19: a successful create_ensemble(c, name, members, weights) stores under name a
\* record with architecture 'ensemble', the members as given and the weights divided
\* by their sum (weights that sum to 1 as given, 1/N each when none are given); every
\* other version, every other category and every default pointer is as it was.
C19_CreateEnsembleStores ==
    [][(Called("create_ensemble") /\ last'.result.ok) =>
          LET c == last'.category
              name == last'.version
              stored == registry'[c].versions[name]
          IN /\ c \in DOMAIN registry
             /\ stored.architecture = "ensemble"
             /\ stored.members = last'.members
             /\ stored.weights = ExpectedWeights(last'.members, last'.weights)
             /\ (last'.weights # NoWeights /\ RatSum(last'.weights) = One)
                   => stored.weights = last'.weights
             /\ DOMAIN stored = {"architecture", "members", "weights"}
             /\ DOMAIN registry' = DOMAIN registry
             /\ DOMAIN registry'[c].versions = DOMAIN registry[c].versions \cup {name}
             /\ \A u \in DOMAIN registry[c].versions \ {name} :
                   registry'[c].versions[u] = registry[c].versions[u]
             /\ \A d \in DOMAIN registry \ {c} : registry'[d] = registry[d]
             /\ \A d \in DOMAIN registry :
                   DefaultPointers(registry', default_models', d)
                       = DefaultPointers(registry, default_models, d)]_vars

\* create_ensemble stored the weights 0.6 and 0.4 as given, for members in the given
\* order, in a category with a default version
C19_Witness ==
    /\ last.op = "create_ensemble"
    /\ last.result.ok
    /\ last.members = <<v1, v2>>
    /\ last.weights = <<Rat(6, 10), Rat(4, 10)>>
    /\ registry[last.category].versions[last.version]
          = EnsembleRecord(<<v1, v2>>, <<Rat(3, 5), Rat(2, 5)>>)
    /\ registry[last.category].default_version = v1

-----------------------------------------------------------------------------
(* Properties of the labels analyze_image selects *)

\* C20: when some score exceeds the threshold, the results are exactly the indices
\* whose score is greater than the threshold, each once, in non-increasing order of
\* score; the scores 0.2, 0.05, 0.9 with threshold 0.15 give the indices 2, 0.
C20_AboveThresholdDescending ==
    (/\ last.op = "analyze_image"
     /\ \E i \in 1..Len(predictions) : RatGreater(predictions[i], confidence_threshold))
        => /\ {indices[k] : k \in 1..Len(indices)}
                 = {i - 1 : i \in {j \in 1..Len(predictions) :
                                      RatGreater(predictions[j], confidence_threshold)}}
           /\ \A k, l \in 1..Len(indices) : indices[k] = indices[l] => k = l
           /\ \A k, l \in 1..Len(indices) :
                 k < l => ~RatGreater(predictions[indices[l] + 1], predictions[indices[k] + 1])
           /\ (/\ predictions = <<Rat(20, 100), Rat(5, 100), Rat(90, 100)>>
               /\ confidence_threshold = Rat(15, 100))
                  => indices = <<2, 0>>

\* The scores 0.2, 0.05, 0.9 with threshold 0.15 gave the indices 2, 0
C20_Witness ==
    /\ last.op = "analyze_image"
    /\ predictions = <<Rat(20, 100), Rat(5, 100), Rat(90, 100)>>
    /\ confidence_threshold = Rat(15, 100)
    /\ indices = <<2, 0>>

C25_TiesKeepCatalogOrder ==
    (/\ last.op = "analyze_image"
     /\ \E i \in 1..Len(predictions) : RatGreater(predictions[i], confidence_threshold))
        => \A k, l \in 1..Len(indices) :
              (k < l /\ predictions[indices[k] + 1] = predictions[indices[l] + 1])
                  => indices[k] < indices[l]

-----------------------------------------------------------------------------
(* Properties of the binary classifier *)

\* C22: the binary classifier returns one result; for a non-empty list of results its
\* label is 'infected' iff a serious result's confidence, or the highest confidence,
\* is greater than the threshold, and its confidence is the highest confidence when
\* infected and 1 minus it when normal. One serious result at 0.4 with threshold 0.3
\* gives infected / 0.4; one result at 0.2 that is not serious gives normal / 0.8.
C22_BinaryReduction ==
    last.op = "get_binary_classification_from_multiclass" =>
        /\ Len(binary_result) = 1
        /\ binary_result[1].id \in {"infected", "normal"}
        /\ multiclass_results # <<>> =>
              LET n == Len(multiclass_results)
                  top == CHOOSE i \in 1..n :
                            \A j \in 1..n : ~RatGreater(multiclass_results[j].confidence,
                                                        multiclass_results[i].confidence)
                  highest == multiclass_results[top].confidence
                  infected ==
                      \/ \E i \in 1..n :
                            /\ multiclass_results[i].isPotentiallySerious
                            /\ RatGreater(multiclass_results[i].confidence, infection_threshold)
                      \/ RatGreater(highest, infection_threshold)
              IN /\ binary_result[1].id = "infected" <=> infected
                 /\ binary_result[1].confidence
                       = IF infected THEN highest
                         ELSE Rat(highest.d - highest.n, highest.d)
        /\ (/\ multiclass_results = <<[confidence |-> Rat(4, 10), isPotentiallySerious |-> TRUE]>>
            /\ infection_threshold = Rat(3, 10))
               => /\ binary_result[1].id = "infected"
                  /\ binary_result[1].confidence = Rat(4, 10)
        /\ (/\ multiclass_results = <<[confidence |-> Rat(2, 10), isPotentiallySerious |-> FALSE]>>
            /\ infection_threshold = Rat(3, 10))
               => /\ binary_result[1].id = "normal"
                  /\ binary_result[1].confidence = Rat(8, 10)

\* Two results, the second the higher and above the threshold, neither serious, gave
\* 'infected' with the confidence of the second
C22_Witness ==
    /\ last.op = "get_binary_classification_from_multiclass"
    /\ multiclass_results = <<[confidence |-> Rat(2, 10), isPotentiallySerious |-> FALSE],
                              [confidence |-> Rat(8, 10), isPotentiallySerious |-> FALSE]>>
    /\ infection_threshold = Rat(3, 10)
    /\ binary_result[1].id = "infected"
    /\ binary_result[1].confidence = Rat(8, 10)

-----------------------------------------------------------------------------
(* Properties of the ensembles get_model builds *)

\* The model get_model just returned was built for an ensemble record
ReturnedEnsemble ==
    /\ last.op = "get_model"
    /\ last.result.ok
    /\ IsEnsembleRecord(last.result.value.info)

\* predict, lines 436-447: the weights the members' predictions are multiplied by,
\* weights[i] for the i-th model of the ensemble
AppliedWeights(h) == SubSeq(h.weights, 1, Len(h.members))

\* C23: get_model returns no model built from a part of what its record names: an
\* ensemble it returns has a member model for every member of its record, each built
\* from the single-model record registered under the member's name.
C23_NoPartialEnsemble ==
    ReturnedEnsemble =>
        LET h == last.result.value
            versions == registry[h.category].versions
        IN /\ Len(h.members) = Len(h.info.members)
           /\ \A i \in 1..Len(h.members) :
                 /\ h.info.members[i] \in DOMAIN versions
                 /\ ~IsEnsembleRecord(versions[h.info.members[i]])
                 /\ h.members[i].info = versions[h.info.members[i]]

\* C26: every ensemble record of the registry has as many weights as members.
C26_WeightsMatchMembers ==
    \A c \in DOMAIN registry :
        \A v \in DOMAIN registry[c].versions :
            IsEnsembleRecord(registry[c].versions[v]) =>
                Len(registry[c].versions[v].weights) = Len(registry[c].versions[v].members)

\* C27: an ensemble get_model returns multiplies the prediction of the model of its
\* record's i-th member by the record's i-th weight, for every member of the record,
\* and the weights it multiplies by sum to 1 (for a record that names a member).
C27_MembersPairedWithWeights ==
    (ReturnedEnsemble /\ last.result.value.info.members # <<>>) =>
        LET h == last.result.value
            applied == AppliedWeights(h)
        IN /\ Len(applied) = Len(h.info.members)
           /\ \A i \in 1..Len(applied) :
                 /\ h.members[i].info = registry[h.category].versions[h.info.members[i]]
                 /\ applied[i] = h.info.weights[i]
           /\ RatSum(applied) = One

-----------------------------------------------------------------------------
(* Properties of image_analyzer *)

\* C24: image_analyzer.analyze_image with empty image data, or with a type that is
\* neither 'throat' nor 'ear', raises ValueError without a call of load_model: the
\* model cache and the saved models are as they were.
C24_InvalidArgumentsLoadNothing ==
    [][(/\ Called("image_analyzer.analyze_image")
        /\ \/ last'.image_data = "empty"
           \/ last'.type \notin {throat, ear})
       => /\ ~last'.result.ok
          /\ last'.result.error = "ValueError"
          /\ load_calls' = load_calls
          /\ model_cache' = model_cache
          /\ model_files' = model_files]_vars

\* After an analysis that loaded a model, analyze_image raised ValueError for the
\* bytes of an image and a type that is neither 'throat' nor 'ear'
C24_Witness ==
    /\ last.op = "image_analyzer.analyze_image"
    /\ last.image_data = "image"
    /\ last.type = ear_x
    /\ ~last.result.ok
    /\ last.result.error = "ValueError"
    /\ load_calls = 1
    /\ model_cache # EmptyDict

-----------------------------------------------------------------------------
(* Properties of serving from a registry earlier processes left *)

\* C28: get_model(category, version) never returns a handle that was constructed
\* for a different (category, version) pair.
C28_HandleOfTheRequestedPair ==
    (last.op = "get_model" /\ last.result.ok)
    => /\ last.result.value.category = last.category
       /\ last.result.value.version = last.version

\* C29: for a single model and an explicitly requested version, analyze_image
\* preprocesses the image with the preprocessing method recorded for the version
\* it resolved and predicts with.
C29_PreprocessingOfResolvedVersion ==
    (/\ last.op = "analyze_image"
     /\ last.result.ok
     /\ last.requested # None
     /\ last.model.members = <<>>)
    => last.preprocessing = last.model.info.preprocessing

\* C30: analyze_image accepts every category of the registry with a resolvable
\* version: for the bytes of an image, a category of the registry and a version
\* registered in it, analyze_image returns results.
C30_RegisteredCategoryAccepted ==
    (/\ last.op = "analyze_image"
     /\ last.img_data = "image"
     /\ last.requested # None
     /\ VersionRegistered(registry, last.analysis_type, last.requested)
     /\ ~IsEnsembleRecord(registry[last.analysis_type].versions[last.requested]))
    => last.result.ok

=============================================================================
